---------------------------- MODULE Spec2Model ----------------------------
(***************************************************************************)
(* Trip Visualizer: the calendar-ingestion pipeline of app.py              *)
(* (process_ics_file, extract_destination, clean_trip_title,               *)
(* smart_sort_trips) and the coordinate resolver of trip_map_optimized.py  *)
(* (OptimizedTripMap).                                                     *)
(*                                                                         *)
(* Text is modelled by TLA+ strings, examined character by character with  *)
(* Len, SubSeq and \o.  The module is plain ASCII: the non-ASCII glyphs of *)
(* the source are written with reserved ASCII characters that no input     *)
(* text otherwise uses: the postal mark U+3012 is "^", an emoji keyword is *)
(* "$" followed by a letter, the n with tilde of "espana" is "$n" and the  *)
(* two kanji of the name of Japan are "$j$p".                              *)
(***************************************************************************)
EXTENDS Integers, Sequences, FiniteSets, TLC

-----------------------------------------------------------------------------
(* Python str primitives                                                   *)

Max2(a, b) == IF a > b THEN a ELSE b

\* s[i-1:j] with i, j 1-based and inclusive, clipped to the string as Python clips a slice
Slice(s, i, j) ==
  IF Max2(i, 1) > j \/ Max2(i, 1) > Len(s) THEN ""
  ELSE SubSeq(s, Max2(i, 1), IF j < Len(s) THEN j ELSE Len(s))

\* s[i] (1-based), a one-character string; "" outside the string
CharAt(s, i) == Slice(s, i, i)

\* s[:n]
Prefix(s, n) == Slice(s, 1, n)

\* pat found in s at position i; s.startswith(pat) is MatchAt(s, pat, 1)
MatchAt(s, pat, i) == i >= 1 /\ i + Len(pat) - 1 <= Len(s) /\ SubSeq(s, i, i + Len(pat) - 1) = pat

\* pat in s
Contains(s, pat) == \E i \in 1..(Len(s) - Len(pat) + 1) : SubSeq(s, i, i + Len(pat) - 1) = pat

\* s.find(pat) + 1, 0 when absent
Find(s, pat) ==
  IF Contains(s, pat)
    THEN CHOOSE i \in 1..(Len(s) - Len(pat) + 1) :
           /\ MatchAt(s, pat, i)
           /\ \A j \in 1..(i - 1) : ~MatchAt(s, pat, j)
    ELSE 0

UpperOf == [a |-> "A", b |-> "B", c |-> "C", d |-> "D", e |-> "E", f |-> "F", g |-> "G",
            h |-> "H", i |-> "I", j |-> "J", k |-> "K", l |-> "L", m |-> "M", n |-> "N",
            o |-> "O", p |-> "P", q |-> "Q", r |-> "R", s |-> "S", t |-> "T", u |-> "U",
            v |-> "V", w |-> "W", x |-> "X", y |-> "Y", z |-> "Z"]
LowerOf == [A |-> "a", B |-> "b", C |-> "c", D |-> "d", E |-> "e", F |-> "f", G |-> "g",
            H |-> "h", I |-> "i", J |-> "j", K |-> "k", L |-> "l", M |-> "m", N |-> "n",
            O |-> "o", P |-> "p", Q |-> "q", R |-> "r", S |-> "s", T |-> "t", U |-> "u",
            V |-> "v", W |-> "w", X |-> "x", Y |-> "y", Z |-> "z"]

IsAlpha(c) == c \in DOMAIN UpperOf \/ c \in DOMAIN LowerOf
IsDigit(c) == c \in {"0", "1", "2", "3", "4", "5", "6", "7", "8", "9"}
IsSpace(c) == c \in {" ", "\t", "\n"}
\* the regex class \w
IsWord(c) == IsAlpha(c) \/ IsDigit(c) \/ c = "_"

LowerChar(c) == IF c \in DOMAIN LowerOf THEN LowerOf[c] ELSE c

\* what a character-wise rewriting writes for position i of s: s.lower() lowers
\* each letter; s.title() upper-cases a letter after an uncased character and
\* lower-cases it after a letter
Piece(rewrite, s, i) ==
  IF rewrite = "lower" \/ IsAlpha(CharAt(s, i - 1)) THEN LowerChar(CharAt(s, i))
  ELSE IF CharAt(s, i) \in DOMAIN UpperOf THEN UpperOf[CharAt(s, i)]
  ELSE CharAt(s, i)

\* the pieces of positions lo..hi, concatenated
RECURSIVE Gather(_, _, _, _)
Gather(rewrite, s, lo, hi) ==
  IF lo > hi THEN ""
  ELSE IF lo = hi THEN Piece(rewrite, s, lo)
  ELSE Gather(rewrite, s, lo, (lo + hi) \div 2) \o Gather(rewrite, s, (lo + hi) \div 2 + 1, hi)

\* s.lower()
Lower(s) == Gather("lower", s, 1, Len(s))

\* s.title()
Title(s) == Gather("title", s, 1, Len(s))

\* s.strip()
Strip(s) ==
  LET solid == {q \in 1..Len(s) : ~IsSpace(CharAt(s, q))}
  IN  IF solid = {} THEN ""
      ELSE Slice(s, CHOOSE q \in solid : \A r \in solid : q <= r,
                    CHOOSE q \in solid : \A r \in solid : q >= r)

\* s.split(sep)[0]
SplitFirst(s, sep) == IF Contains(s, sep) THEN Slice(s, 1, Find(s, sep) - 1) ELSE s

-----------------------------------------------------------------------------
(* process_ics_file: the keyword classifier                                *)

\* emoji keywords: airplane, hotel, train, car, beach, map, luggage, ticket, island, umbrella
travel_keywords ==
  << "airbnb", "booking.com", "agoda", "trip.com", "hotels.com",
     "expedia", "kayak", "priceline", "tripadvisor", "hostelworld",
     "vrbo", "trivago", "marriott", "hilton", "hyatt",
     "flight", "flights", "fly", "flying", "airport", "airline",
     "train", "rail", "railway", "amtrak", "eurostar",
     "bus", "coach", "greyhound", "flixbus",
     "rental car", "rent a car", "car rental", "hire car",
     "uber", "lyft", "taxi", "transfer",
     "hotel", "hotels", "accommodation", "motel", "resort", "hostel",
     "lodge", "inn", "suite", "apartment", "villa",
     "trip", "travel", "traveling", "travelling", "journey",
     "vacation", "vacations", "holiday", "holidays", "getaway",
     "visit", "visiting", "tour", "tourist", "tourism",
     "cruise", "cruising", "sailing",
     "check-in", "checkin", "check in",
     "check-out", "checkout", "check out",
     "reservation", "reservations", "booked", "booking",
     "$a", "$h", "$t", "$c", "$b", "$m", "$l", "$k", "$i", "$u" >>

\* the platform list short of its first name
booking_platforms_short ==
  << "booking.com", "agoda", "trip.com", "hotels.com",
     "expedia", "kayak", "priceline", "tripadvisor", "hostelworld",
     "vrbo", "trivago" >>

booking_platforms ==
  << "airbnb", "booking.com", "agoda", "trip.com", "hotels.com",
     "expedia", "kayak", "priceline", "tripadvisor", "hostelworld",
     "vrbo", "trivago" >>

exclusion_keywords ==
  << "meeting", "call", "zoom", "teams", "virtual",
     "webinar", "conference call", "standup", "stand-up",
     "interview", "dental", "doctor", "appointment",
     "birthday", "anniversary", "party", "work", "office" >>

\* any(k in text for k in keywords)
AnyIn(keywords, text) == \E k \in 1..Len(keywords) : Contains(text, keywords[k])

\* sum(1 for k in keywords if k in text)
CountIn(keywords, text) == Cardinality({k \in 1..Len(keywords) : Contains(text, keywords[k])})

combined_text(e) == Lower(e.summary \o " " \o e.location \o " " \o e.description)

is_excluded(text) == AnyIn(exclusion_keywords, text)

has_booking_platform(text) == AnyIn(booking_platforms, text)

\* the count without the company names that open the keyword list
travel_score_unlisted(text) == CountIn(SubSeq(travel_keywords, 16, Len(travel_keywords)), text)

travel_score(text) == CountIn(travel_keywords, text)

\* the threshold the comment of line 135 names: two travel keywords
is_included_two(text) == has_booking_platform(text) \/ travel_score(text) >= 2

\* the inclusion test of an event that passed the exclusion check
is_included(text) == has_booking_platform(text) \/ travel_score(text) >= 1

-----------------------------------------------------------------------------
(* Regular expressions of extract_destination and clean_trip_title         *)

\* s[i..i+n-1] are n digits
DigitsAt(s, i, n) == i >= 1 /\ i + n - 1 <= Len(s) /\ \A j \in i..(i + n - 1) : IsDigit(CharAt(s, j))

\* the first position >= p that holds no whitespace (Len(s) + 1 when there is none)
SkipSpaces(s, p) ==
  LET stops == {q \in p..Len(s) : ~IsSpace(CharAt(s, q))}
  IN  IF stops = {} THEN Max2(p, Len(s) + 1) ELSE CHOOSE q \in stops : \A r \in stops : q <= r

\* the least element of a non-empty set of integers
MinOf(S) == CHOOSE q \in S : \A r \in S : q <= r

\* re.sub(<pattern>.*, '', s) from position i on, given the positions where
\* <pattern> matches: each match, leftmost first, is removed up to the next
\* newline or the end of s
RECURSIVE RemoveToEol(_, _, _)
RemoveToEol(s, starts, i) ==
  LET later == {m \in starts : m >= i}
  IN  IF later = {} THEN Slice(s, i, Len(s))
      ELSE Slice(s, i, MinOf(later) - 1)
           \o RemoveToEol(s, starts,
                          MinOf({q \in MinOf(later)..(Len(s) + 1) : q > Len(s) \/ CharAt(s, q) = "\n"}))

\* [postal mark]?\d{3}-?\d{4} at i, the digits starting at j
PostalAt(s, i) ==
  \E j \in {i, i + 1} :
    /\ j = i \/ CharAt(s, i) = "^"
    /\ DigitsAt(s, j, 3)
    /\ \/ CharAt(s, j + 3) = "-" /\ DigitsAt(s, j + 4, 4)
       \/ DigitsAt(s, j + 3, 4)

\* \d+ Chome- at i
ChomeAt(s, i) ==
  /\ i <= Len(s) /\ IsDigit(CharAt(s, i))
  /\ LET stops == {q \in i..Len(s) : ~IsDigit(CharAt(s, q))}
     IN  stops # {} /\ MatchAt(s, " Chome-", MinOf(stops))

\* Pin \d+ at i
PinAt(s, i) == MatchAt(s, "Pin ", i) /\ DigitsAt(s, i + 4, 1)

\* pat at position i of s, ignoring case (pat is lower-case)
MatchAtNoCase(s, pat, i) ==
  i >= 1 /\ i + Len(pat) - 1 <= Len(s) /\ Lower(Slice(s, i, i + Len(pat) - 1)) = pat

\* \b(airport|hotel|center|centre|downtown|station)\b at i, ignoring case; the
\* length matched, 0 when none does
VenueWordAt(s, i) ==
  LET hits == {w \in {"airport", "hotel", "center", "centre", "downtown", "station"} :
                 /\ MatchAtNoCase(s, w, i)
                 /\ (i = 1 \/ ~IsWord(CharAt(s, i - 1)))
                 /\ (i + Len(w) - 1 = Len(s) \/ ~IsWord(CharAt(s, i + Len(w))))}
  IN  IF hits = {} THEN 0 ELSE Len(CHOOSE w \in hits : TRUE)

\* https?://[^\s]+ at i, ignoring case; the length matched, 0 when it does not
UrlAt(s, i) ==
  LET head == IF MatchAtNoCase(s, "https://", i) THEN 8
              ELSE IF MatchAtNoCase(s, "http://", i) THEN 7 ELSE 0
      stop == {q \in (i + head)..Len(s) : IsSpace(CharAt(s, q))}
      end == IF stop = {} THEN Len(s) + 1 ELSE MinOf(stop)
  IN  IF head = 0 \/ end = i + head THEN 0 ELSE end - i

\* what a substitution writes for position i of s.  The venue-word and the URL
\* pattern write nothing for a position inside a match (whole words cannot
\* overlap; a URL match runs to the end of its run of non-space characters, so
\* a match found inside another ends where it does).  ' '.join(s.split())
\* writes one space for a run of whitespace between two words, at its first
\* position
Kept(rewrite, s, i) ==
  IF rewrite = "venue"
    THEN IF \E j \in 1..i : /\ LowerChar(CharAt(s, j)) \in {"a", "h", "c", "d", "s"}
                           /\ VenueWordAt(s, j) > i - j
           THEN "" ELSE CharAt(s, i)
  ELSE IF rewrite = "url"
    THEN IF \E j \in 1..i : LowerChar(CharAt(s, j)) = "h" /\ UrlAt(s, j) > i - j
           THEN "" ELSE CharAt(s, i)
  ELSE IF ~IsSpace(CharAt(s, i)) THEN CharAt(s, i)
  ELSE IF i > 1 /\ ~IsSpace(CharAt(s, i - 1)) /\ SkipSpaces(s, i) <= Len(s) THEN " "
  ELSE ""

\* the output for positions lo..hi, concatenated
RECURSIVE GatherKept(_, _, _, _)
GatherKept(rewrite, s, lo, hi) ==
  IF lo > hi THEN ""
  ELSE IF lo = hi THEN Kept(rewrite, s, lo)
  ELSE GatherKept(rewrite, s, lo, (lo + hi) \div 2) \o GatherKept(rewrite, s, (lo + hi) \div 2 + 1, hi)

\* re.sub(pattern, '', s, flags=re.IGNORECASE) for the venue-word ("venue") and
\* the URL ("url") pattern, and ' '.join(s.split()) ("join")
Sub(rewrite, s) == GatherKept(rewrite, s, 1, Len(s))

\* what follows the capture group in pattern n (1, 2, 3) of the list of lines 264-268:
\*   1  (?:\s*[-,:]|\s+on\s+|\s+from\s+|$)
\*   2  \s+(?:trip|vacation|holiday|flight|hotel)
\*   3  \s*[-:]
TermAt(n, s, p) ==
  LET q == SkipSpaces(s, p)
  IN  IF n = 1
        THEN \/ q <= Len(s) /\ CharAt(s, q) \in {"-", ",", ":"}
             \/ q > p /\ MatchAt(s, "on", q) /\ q + 2 <= Len(s) /\ IsSpace(CharAt(s, q + 2))
             \/ q > p /\ MatchAt(s, "from", q) /\ q + 4 <= Len(s) /\ IsSpace(CharAt(s, q + 4))
             \/ p = Len(s) + 1
             \/ p = Len(s) /\ CharAt(s, p) = "\n"
      ELSE IF n = 2
        THEN /\ p <= Len(s) /\ IsSpace(CharAt(s, p))
             /\ \E w \in {"trip", "vacation", "holiday", "flight", "hotel"} : MatchAt(s, w, q)
      ELSE q <= Len(s) /\ CharAt(s, q) \in {"-", ":"}

\* the lazy group ([A-Z][a-zA-Z\s]+?) of pattern n opening at g: the lengths
\* m >= 1 of its second part for which the rest of the pattern matches
GroupLens(n, s, g) ==
  IF g >= 1 /\ g <= Len(s) /\ CharAt(s, g) \in DOMAIN LowerOf
    THEN {m \in 1..(Len(s) - g) :
            /\ \A j \in (g + 1)..(g + m) : IsAlpha(CharAt(s, j)) \/ IsSpace(CharAt(s, j))
            /\ TermAt(n, s, g + m + 1)}
    ELSE {}

\* what the group captures: the lazy quantifier takes the least length
GroupText(n, s, g) == Slice(s, g, g + MinOf(GroupLens(n, s, g)))

\* where the group of (?:to|in|at)\s+(group)(terminator) opens for a match
\* starting at i; 0 when the pattern does not match at i
ToInAtGroup(s, i) ==
  IF /\ \E w \in {"to", "in", "at"} : MatchAt(s, w, i)
     /\ i + 2 <= Len(s) /\ IsSpace(CharAt(s, i + 2))
     /\ GroupLens(1, s, SkipSpaces(s, i + 2)) # {}
    THEN SkipSpaces(s, i + 2) ELSE 0

\* re.search of pattern n: the captured group of the leftmost match, as a
\* one-element sequence, or << >> when the pattern matches nowhere.  Pattern 3
\* is anchored: ^\s*(group)
Search(n, s) ==
  LET starts == IF n = 1 THEN {ToInAtGroup(s, i) : i \in 1..Len(s)} \ {0}
                ELSE IF n = 2 THEN {g \in 1..Len(s) : GroupLens(2, s, g) # {}}
                ELSE {g \in {SkipSpaces(s, 1)} : GroupLens(3, s, g) # {}}
  IN  IF starts = {} THEN << >> ELSE << GroupText(n, s, MinOf(starts)) >>

-----------------------------------------------------------------------------
(* extract_destination and clean_trip_title                                *)

\* title.startswith(('http://', 'https://', 'Http://', 'Https://'))
IsUrlTitle(title) ==
  \E p \in {"http://", "https://", "Http://", "Https://"} : MatchAt(title, p, 1)

\* one round of: if separator in title: title = title.split(separator)[0].strip()
CutAt(title, separator) ==
  IF Contains(title, separator) THEN Strip(SplitFirst(title, separator)) ELSE title

\* one round of: if title.startswith(prefix): title = title[len(prefix):].strip()
DropPrefix(title, prefix) ==
  IF MatchAt(title, prefix, 1) THEN Strip(Slice(title, Len(prefix) + 1, Len(title))) ELSE title

\* the title after the clean-up of lines 233-247: the loop over the separators
\* [' (Formerly:', ' - ', ' [postal mark]', '  ', ' (Pin'], the three address
\* substitutions, each followed by strip(), and the loop over the prefixes
\* ['Airbnb:', 'Booking.com:', 'Trip.com:', 'Hotels.com:', 'Agoda:']
CutAddress(title, pattern) ==
  Strip(RemoveToEol(title, {i \in 1..Len(title) : IF pattern = "postal" THEN PostalAt(title, i)
                                                  ELSE IF pattern = "chome" THEN ChomeAt(title, i)
                                                  ELSE PinAt(title, i)}, 1))

CleanedTitle(title) ==
  DropPrefix(DropPrefix(DropPrefix(DropPrefix(DropPrefix(
    CutAddress(CutAddress(CutAddress(
      CutAt(CutAt(CutAt(CutAt(CutAt(title, " (Formerly:"), " - "), " ^"), "  "), " (Pin"),
      "postal"), "chome"), "pin"),
    "Airbnb:"), "Booking.com:"), "Trip.com:"), "Hotels.com:"), "Agoda:")

\* the test of line 250 without the emptiness and length checks
GoodTitleAnyLength(title) == Lower(title) \notin {"hotel", "airbnb", "booking"}

\* line 250: the cleaned title is good enough to be the destination
GoodTitle(title) ==
  title # "" /\ Len(title) > 2 /\ Lower(title) \notin {"hotel", "airbnb", "booking"}

\* lines 254-261: the city taken from the location field, "" when there is none
CityFromLocation(location) ==
  IF location # "" /\ Lower(location) \notin {"", "none", "null"} /\ ~MatchAt(location, "http", 1)
    THEN LET city == Strip(Sub("venue", Strip(SplitFirst(location, ","))))
         IN  IF city # "" /\ Len(city) > 2 THEN Title(city) ELSE ""
    ELSE ""

\* lines 264-277: the first pattern whose leftmost capture is no stopword, else "Unknown"
FromPatterns(title) ==
  LET ok(k) == /\ Search(k, title) # << >>
               /\ Lower(Strip(Search(k, title)[1])) \notin {"the", "hotel", "flight", "trip", "vacation"}
  IN  IF ok(1) THEN Strip(Search(1, title)[1])
      ELSE IF ok(2) THEN Strip(Search(2, title)[1])
      ELSE IF ok(3) THEN Strip(Search(3, title)[1])
      ELSE "Unknown"

\* the location field consulted before the title
DestinationLocationFirst(title, location) ==
  LET t == CleanedTitle(title)
  IN  IF CityFromLocation(location) # "" THEN CityFromLocation(location)
      ELSE IF GoodTitle(t) THEN t
      ELSE FromPatterns(t)

\* lines 233-277, for a title that is no URL
DestinationOfText(title, location) ==
  LET t == CleanedTitle(title)
  IN  IF GoodTitle(t) THEN t
      ELSE IF CityFromLocation(location) # "" THEN CityFromLocation(location)
      ELSE FromPatterns(t)

RECURSIVE extract_destination(_, _)
extract_destination(title0, location0) ==
  LET title == Strip(title0)
      location == Strip(location0)
  IN  IF IsUrlTitle(title)
        THEN IF location # "" /\ ~MatchAt(location, "http", 1)
               THEN extract_destination(location, "")
               ELSE IF /\ Contains(Lower(title), "trip.com")
                       /\ \E i \in 1..Len(title) :
                            MatchAtNoCase(title, "hotelid=", i) /\ DigitsAt(title, i + 8, 1)
                      THEN "Hotel" ELSE "Unknown Location"
        ELSE DestinationOfText(title, location)

\* lines 318-325: the truncation of a title longer than 50 characters
Truncate(title) ==
  IF Len(title) > 50
    THEN IF Contains(Prefix(title, 50), " - ") THEN SplitFirst(title, " - ")
         ELSE IF Contains(Prefix(title, 50), ", ") THEN SplitFirst(title, ", ")
         ELSE IF Contains(Prefix(title, 50), " (") THEN SplitFirst(title, " (")
         ELSE IF Contains(Prefix(title, 50), "  ") THEN SplitFirst(title, "  ")
         ELSE Prefix(title, 47) \o "..."
    ELSE title

clean_trip_title(title0) ==
  LET title == Strip(title0)
  IN  IF IsUrlTitle(title)
        THEN IF Contains(Lower(title), "trip.com") THEN "Trip.com Booking"
             ELSE IF Contains(Lower(title), "booking.com") THEN "Booking.com Reservation"
             ELSE IF Contains(Lower(title), "airbnb") THEN "Airbnb Stay"
             ELSE IF Contains(Lower(title), "google.com/maps") THEN "Location"
             ELSE "Hotel Booking"
        ELSE Truncate(Sub("join", Strip(Sub("url", title))))

-----------------------------------------------------------------------------
(* process_ics_file: the date resolver and the Trip builder                *)

(* An instant is a number of seconds since an epoch, in wall-clock time.   *)
(* A property value (dtstart, dtend) is a record:                          *)
(*   kind = "absent"    component.get returns None                         *)
(*   kind = "datetime"  .dt is a datetime with wall-clock time t, aware    *)
(*                      (with UTC offset, in hours) or naive               *)
(*   kind = "date"      .dt is a date, t its midnight                      *)
(*   kind = "other"     .dt is neither (a duration, a period)              *)
(*   kind = "nodt"      the value has no .dt (a list of several values)    *)
(*   kind = "raising"   reading .dt raises something other than            *)
(*                      AttributeError, which hasattr lets through         *)
Hours(h) == h * 3600
Days(d) == d * 24 * 3600

DateTime(t) == [kind |-> "datetime", t |-> t, aware |-> FALSE, offset |-> 0]
DateTimeTz(t, offset) == [kind |-> "datetime", t |-> t, aware |-> TRUE, offset |-> offset]
DateOnly(t) == [kind |-> "date", t |-> t, aware |-> FALSE, offset |-> 0]
Valueless(kind) == [kind |-> kind, t |-> 0, aware |-> FALSE, offset |-> 0]
Absent == Valueless("absent")

\* the instant the source event names, in UTC (a naive value is taken as UTC)
Instant(v) == v.t - Hours(v.offset)

\* any value that is there taken for a date
start_date_of_any(start) == IF start.kind # "absent" THEN << start.t >> ELSE << >>

\* lines 146-156: start_date, the naive datetime of a value that has a .dt, as a
\* one-element sequence, << >> for None.  datetime.replace(tzinfo=None) keeps the
\* wall-clock time; datetime.combine(date, time.min) is the date's midnight
start_date_of(start) == IF start.kind \in {"datetime", "date"} THEN << start.t >> ELSE << >>

\* lines 147, 158-165: end_date before the default of lines 170-171; a missing
\* end is falsy
end_date_of(end) == IF end.kind \in {"datetime", "date"} THEN << end.t >> ELSE << >>

\* description[:200] if description else ''
DescriptionLimit == 200

\* the Trip with its destination title-cased
trip_data_titled(e, start_date) ==
  [ title |-> clean_trip_title(e.summary),
    original_title |-> e.summary,
    start_date |-> start_date,
    end_date |-> IF end_date_of(e.dtend) = << >> THEN start_date ELSE end_date_of(e.dtend)[1],
    location |-> e.location,
    description |-> Prefix(e.description, DescriptionLimit),
    destination |-> Title(extract_destination(e.summary, e.location)),
    travel_score |-> travel_score(combined_text(e)),
    has_booking_platform |-> has_booking_platform(combined_text(e)) ]

\* lines 173-183
trip_data(e, start_date) ==
  LET text == combined_text(e)
  IN
  [ title |-> clean_trip_title(e.summary),
    original_title |-> e.summary,
    start_date |-> start_date,
    end_date |-> IF end_date_of(e.dtend) = << >> THEN start_date ELSE end_date_of(e.dtend)[1],
    location |-> e.location,
    description |-> Prefix(e.description, DescriptionLimit),
    destination |-> extract_destination(e.summary, e.location),
    travel_score |-> travel_score(text),
    has_booking_platform |-> has_booking_platform(text) ]

\* a booking platform overriding the exclusion check
OutcomePlatformFirst(e) ==
  IF e.name # "VEVENT" THEN "not_event"
  ELSE IF is_excluded(combined_text(e)) /\ ~has_booking_platform(combined_text(e)) THEN "excluded"
  ELSE IF ~is_included(combined_text(e)) THEN "not_travel"
  ELSE IF e.dtstart.kind = "absent" THEN "no_start"
  ELSE IF e.dtstart.kind = "raising" \/ e.dtend.kind = "raising" THEN "raised"
  ELSE IF start_date_of(e.dtstart) = << >> THEN "no_start_date"
  ELSE "trip"

\* lines 116-187, one iteration of the loop: the branch a component takes.
\* hasattr(start, 'dt') and hasattr(end, 'dt') are both evaluated before
\* start_date is tested, inside the try of line 117: what either raises is
\* caught at line 186 and the loop goes on
Outcome(e) ==
  LET text == combined_text(e)
  IN
  IF e.name # "VEVENT" THEN "not_event"
  ELSE IF is_excluded(text) THEN "excluded"
  ELSE IF ~is_included(text) THEN "not_travel"
  ELSE IF e.dtstart.kind = "absent" THEN "no_start"
  ELSE IF e.dtstart.kind = "raising" \/ e.dtend.kind = "raising" THEN "raised"
  ELSE IF start_date_of(e.dtstart) = << >> THEN "no_start_date"
  ELSE "trip"

\* the Trips (none or one) the iteration appends
TripsOfComponent(e) ==
  IF Outcome(e) = "trip" THEN << trip_data(e, start_date_of(e.dtstart)[1]) >> ELSE << >>

-----------------------------------------------------------------------------
(* process_ics_file: the Trip Collection                                   *)

\* a row with one more column
WithColumn(row, column, value) ==
  [f \in DOMAIN row \cup {column} |-> IF f = column THEN value ELSE row[f]]

\* the quotient rounded up
CeilDiv(x, y) == -((-x) \div y)

\* int(x / y) for y > 0: Python's int() truncates toward zero
TruncDiv(x, y) == IF x >= 0 THEN x \div y ELSE -((-x) \div y)

SecondsPerDay == 86400

\* the day count without its floor of 1
duration_days_unclamped(row) == TruncDiv(row.end_date - row.start_date, SecondsPerDay)

\* line 194: max(1, int((end_date - start_date).total_seconds() / 86400))
duration_days(row) == Max2(1, TruncDiv(row.end_date - row.start_date, SecondsPerDay))

\* lines 193-198: df['duration_days'] = df.apply(...)
RECURSIVE AddDuration(_)
AddDuration(rows) ==
  IF rows = << >> THEN << >>
  ELSE << WithColumn(Head(rows), "duration_days", duration_days(Head(rows))) >> \o AddDuration(Tail(rows))

\* deduplication on the raw summary
DedupKeyRaw(row) == << row.original_title, row.start_date >>

\* the key of df.drop_duplicates(subset=['title', 'start_date'])
DedupKey(row) == << row.title, row.start_date >>

\* line 201: drop_duplicates keeps, of the rows sharing a key, the first
RECURSIVE KeepFirst(_, _)
KeepFirst(rows, k) ==
  IF k > Len(rows) THEN << >>
  ELSE (IF \E j \in 1..(k - 1) : DedupKey(rows[j]) = DedupKey(rows[k]) THEN << >> ELSE << rows[k] >>)
       \o KeepFirst(rows, k + 1)
drop_duplicates(rows) == KeepFirst(rows, 1)

-----------------------------------------------------------------------------
(* smart_sort_trips                                                        *)

\* lines 468-471
trip_status(row, current_date) ==
  IF row.start_date <= current_date /\ current_date <= row.end_date THEN "current"
  ELSE IF row.start_date > current_date THEN "future"
  ELSE "past"

\* three independent tests instead of one label per row
InClassByDates(row, current_date, status) ==
  \/ status = "current" /\ row.start_date <= current_date /\ current_date <= row.end_date
  \/ status = "future" /\ row.start_date > current_date
  \/ status = "past" /\ row.end_date < current_date

\* lines 477-479: the test df['trip_status'] == status
InClass(row, current_date, status) == trip_status(row, current_date) = status

\* df[df['trip_status'] == status]: the rows of a class, in the order of df
RECURSIVE WithStatus(_, _, _)
WithStatus(rows, current_date, status) ==
  IF rows = << >> THEN << >>
  ELSE (IF InClass(Head(rows), current_date, status) THEN << Head(rows) >> ELSE << >>)
       \o WithStatus(Tail(rows), current_date, status)

\* rows.sort_values('start_date', ascending=ascending): a rearrangement of the
\* rows in the order of their start_date.  The default sort kind, quicksort, is
\* not stable, so rows with equal start_date may come out in any order
sort_values(rows, ascending) ==
  {p \in {[k \in 1..Len(rows) |-> rows[f[k]]] :
            f \in {g \in [1..Len(rows) -> 1..Len(rows)] :
                     \A a, b \in 1..Len(rows) : a # b => g[a] # g[b]}} :
     \A a, b \in 1..Len(p) :
       a < b => IF ascending THEN p[a].start_date <= p[b].start_date
                             ELSE p[a].start_date >= p[b].start_date}

\* the past Trips sorted like the others, oldest first
past_trips_ascending(rows, current_date) == sort_values(WithStatus(rows, current_date, "past"), TRUE)

\* line 477
current_trips(rows, current_date) == sort_values(WithStatus(rows, current_date, "current"), TRUE)
\* line 478
future_trips(rows, current_date) == sort_values(WithStatus(rows, current_date, "future"), TRUE)
\* line 479
past_trips(rows, current_date) == sort_values(WithStatus(rows, current_date, "past"), FALSE)

\* lines 462-487: the frames smart_sort_trips can return; the helper columns
\* trip_status and days_from_today are dropped again at line 485
smart_sort_trips(rows, current_date) ==
  {c \o f \o p : c \in current_trips(rows, current_date),
                 f \in future_trips(rows, current_date),
                 p \in past_trips(rows, current_date)}

-----------------------------------------------------------------------------
(* OptimizedTripMap: coordinates and the coordinate cache                  *)

(* A float is the decimal it was written as: its sign, its whole part and   *)
(* the digits of its fraction without trailing zeros.                       *)
RECURSIVE NatOf(_)
NatOf(digits) ==
  IF digits = "" THEN 0
  ELSE NatOf(Prefix(digits, Len(digits) - 1)) * 10
       + (CHOOSE n \in 0..9 : CharAt("0123456789", n + 1) = CharAt(digits, Len(digits)))

MaxOf(S) == CHOOSE q \in S : \A r \in S : q >= r

\* digits without its trailing zeros
StripZeros(digits) == Prefix(digits, MaxOf({0} \cup {q \in 1..Len(digits) : CharAt(digits, q) # "0"}))

\* what follows the first point of a decimal
FractionOf(body) == IF Contains(body, ".") THEN Slice(body, Find(body, ".") + 1, Len(body)) ELSE ""

\* float of a text of the class [-\d.]+ from which a leading minus has been taken:
\* a second minus, a second point or no digit at all make float raise
ParseUnsigned(neg, body) ==
  IF \/ Contains(body, "-")
     \/ Contains(FractionOf(body), ".")
     \/ \A q \in 1..Len(body) : ~IsDigit(CharAt(body, q))
    THEN << >>
    ELSE << [neg |-> neg, whole |-> NatOf(SplitFirst(body, ".")), frac |-> StripZeros(FractionOf(body))] >>

\* float(text) for a text of the class [-\d.]+, as a one-element sequence;
\* << >> when float raises ValueError
ParseFloat(text) ==
  ParseUnsigned(MatchAt(text, "-", 1), IF MatchAt(text, "-", 1) THEN Slice(text, 2, Len(text)) ELSE text)

\* [lat, lon] written with two literals
Point(lat, lon) == << ParseFloat(lat)[1], ParseFloat(lon)[1] >>

(* A dict is the sequence of its entries in insertion order, the order in  *)
(* which it is iterated and written to the cache file.                     *)
Entries(table) ==
  [k \in 1..Len(table) |-> [key |-> table[k][1], value |-> Point(table[k][2], table[k][3])]]

Keys(cache) == {cache[k].key : k \in 1..Len(cache)}

\* cache[key] for a key of the dict
Lookup(cache, key) == cache[CHOOSE k \in 1..Len(cache) : cache[k].key = key].value

\* an assignment that forgets the entries made before it
SetItemAlone(cache, key, value) == << [key |-> key, value |-> value] >>

\* cache[key] = value
SetItem(cache, key, value) ==
  IF key \in Keys(cache)
    THEN [k \in 1..Len(cache) |-> IF cache[k].key = key THEN [key |-> key, value |-> value] ELSE cache[k]]
    ELSE Append(cache, [key |-> key, value |-> value])

\* lines 22-57
default_coordinates ==
  Entries(<< << "New York", "40.7128", "-74.0060" >>, << "London", "51.5074", "-0.1278" >>,
             << "Paris", "48.8566", "2.3522" >>, << "Tokyo", "35.6762", "139.6503" >>,
             << "Barcelona", "41.3851", "2.1734" >>, << "Rome", "41.9028", "12.4964" >>,
             << "Berlin", "52.5200", "13.4050" >>, << "Madrid", "40.4168", "-3.7038" >>,
             << "Amsterdam", "52.3676", "4.9041" >>, << "Prague", "50.0755", "14.4378" >>,
             << "Vienna", "48.2082", "16.3738" >>, << "Bangkok", "13.7563", "100.5018" >>,
             << "Singapore", "1.3521", "103.8198" >>, << "Dubai", "25.2048", "55.2708" >>,
             << "Sydney", "-33.8688", "151.2093" >>, << "Miami", "25.7617", "-80.1918" >>,
             << "Los Angeles", "34.0522", "-118.2437" >>, << "San Francisco", "37.7749", "-122.4194" >>,
             << "Chicago", "41.8781", "-87.6298" >>, << "Boston", "42.3601", "-71.0589" >>,
             << "Fukuoka", "33.5904", "130.4017" >>, << "Yanagawa", "33.1633", "130.4056" >>,
             << "Hiroshima", "34.3853", "132.4553" >>, << "Miyajima", "34.2956", "132.3195" >>,
             << "Nishifujinomoricho", "34.9877", "135.7529" >>, << "Murasakino", "35.0377", "135.7529" >>,
             << "Shinosaka", "34.7338", "135.5004" >>, << "Nishiwajir", "35.6762", "139.6503" >>,
             << "Beppu", "33.2846", "131.4910" >>, << "Daiiti", "33.2396", "131.6093" >>,
             << "Noreply", "35.6762", "139.6503" >>, << "East 21 Tokyo", "35.6762", "139.6503" >> >>)

\* lines 111-122
japan_cities ==
  Entries(<< << "Matsubaya", "34.6937", "135.5023" >>, << "Osaka", "34.6937", "135.5023" >>,
             << "Kyoto", "35.0116", "135.7681" >>, << "Tokyo", "35.6762", "139.6503" >>,
             << "Hiroshima", "34.3853", "132.4553" >>, << "Nagasaki", "32.7503", "129.8777" >>,
             << "Fukuoka", "33.5904", "130.4017" >>, << "Sapporo", "43.0642", "141.3469" >>,
             << "Nara", "34.6851", "135.8048" >>, << "Yokohama", "35.4437", "139.6380" >> >>)

\* the length of the longest run of [-\d.] at p
CoordRun(s, p) ==
  Cardinality({q \in p..Len(s) :
                 \A r \in p..q : IsDigit(CharAt(s, r)) \/ CharAt(s, r) \in {"-", "."}})

\* the run of [-\d.] at p
RunAt(s, p) == Slice(s, p, p + CoordRun(s, p) - 1)

\* ([-\d.]+),([-\d.]+) at a: the position of the comma, 0 without a match
CommaAfter(s, a) ==
  IF CoordRun(s, a) > 0 /\ CharAt(s, a + CoordRun(s, a)) = "," /\ CoordRun(s, a + CoordRun(s, a) + 1) > 0
    THEN a + CoordRun(s, a)
    ELSE 0

\* the groups of the leftmost of the matches that start at the positions hits
LeftmostGroups(prefix, s, hits) ==
  IF hits = {} THEN << >>
  ELSE << RunAt(s, MinOf(hits) + Len(prefix)),
          RunAt(s, CommaAfter(s, MinOf(hits) + Len(prefix)) + 1) >>

\* re.search(<prefix>([-\d.]+),([-\d.]+), s): the two groups of the leftmost
\* match, << >> without a match
GoogleGroups(prefix, s) ==
  LeftmostGroups(prefix, s,
                 {p \in 1..Len(s) : MatchAt(s, prefix, p) /\ CommaAfter(s, p + Len(prefix)) > 0})

\* \s*:\s* at c: the position after it, 0 without a match
ColonAt(s, c) == IF CharAt(s, SkipSpaces(s, c)) = ":" THEN SkipSpaces(s, SkipSpaces(s, c) + 1) ELSE 0

\* <name>["\']?\s*:\s* at p, ignoring case: the position after it, 0 without a match
KeyColonAt(name, s, p) ==
  IF MatchAtNoCase(s, name, p)
    THEN ColonAt(s, IF CharAt(s, p + Len(name)) \in {"\"", "'"} THEN p + Len(name) + 1
                    ELSE p + Len(name))
    ELSE 0

\* <name>["\']?\s*:\s*([-\d.]+) at p: the position of the group, 0 without a match
KeyValueAt(name, s, p) ==
  IF KeyColonAt(name, s, p) > 0 /\ CoordRun(s, KeyColonAt(name, s, p)) > 0
    THEN KeyColonAt(name, s, p) ELSE 0

\* the positions at or after p where the second key of a pair and its value match
SecondKeys(name, s, p) == {m \in p..Len(s) : KeyValueAt(name, s, m) > 0}

\* <first>["\']?\s*:\s*([-\d.]+).*<second>["\']?\s*:\s*([-\d.]+) at p, with
\* re.IGNORECASE | re.DOTALL
PairAt(first, second, s, p) ==
  /\ KeyValueAt(first, s, p) > 0
  /\ SecondKeys(second, s, KeyValueAt(first, s, p) + CoordRun(s, KeyValueAt(first, s, p))) # {}

\* the two groups of the match whose first group starts at g: the greedy .*
\* runs to the last second key
PairFrom(second, s, g) ==
  << RunAt(s, g), RunAt(s, KeyValueAt(second, s, MaxOf(SecondKeys(second, s, g + CoordRun(s, g))))) >>

\* the groups of the leftmost of the matches that start at the positions hits
LeftmostPair(first, second, s, hits) ==
  IF hits = {} THEN << >> ELSE PairFrom(second, s, KeyValueAt(first, s, MinOf(hits)))

\* re.search of that pattern: the two groups of the leftmost match, << >>
\* without a match
PairGroups(first, second, s) ==
  LeftmostPair(first, second, s, {p \in 1..Len(s) : PairAt(first, second, s, p)})

\* lines 77-84 and 95-101: [lat, lon] from the groups of a match; << >> when
\* there is no match or float raises for either group
FromGroups(groups) ==
  IF groups = << >> \/ ParseFloat(groups[1]) = << >> \/ ParseFloat(groups[2]) = << >> THEN << >>
  ELSE << ParseFloat(groups[1])[1], ParseFloat(groups[2])[1] >>

\* the first non-empty element of a sequence of sequences, << >> when all are empty
RECURSIVE FirstOf(_)
FirstOf(attempts) ==
  IF attempts = << >> THEN << >>
  ELSE IF Head(attempts) # << >> THEN Head(attempts)
  ELSE FirstOf(Tail(attempts))

\* lines 63-101: the coordinates embedded in the location field, from the first
\* pattern that matches and whose groups are floats
url_coordinates(location_field) ==
  IF location_field = "" THEN << >>
  ELSE FirstOf(<< FromGroups(GoogleGroups("@", location_field)),
                  FromGroups(GoogleGroups("ll=", location_field)),
                  FromGroups(GoogleGroups("q=", location_field)),
                  FromGroups(PairGroups("latitude", "longitude", location_field)),
                  FromGroups(PairGroups("lat", "lng", location_field)) >>)

\* the entries of a dict whose lower-cased key is part of a text or, when
\* either holds, has the text as a part
NamedIn(entries, text, either) ==
  {k \in 1..Len(entries) : \/ Contains(text, Lower(entries[k].key))
                           \/ either /\ Contains(Lower(entries[k].key), text)}

\* lines 135-146: the centre of a country named in text, the lower-cased
\* destination; << >> for none
country_centre(text) ==
  IF AnyIn(<< "ryokan", "onsen", "shrine", "temple" >>, text) THEN Point("36.2048", "138.2529")
  ELSE IF AnyIn(<< "usa", "united states", "america" >>, text) THEN Point("39.8283", "-98.5795")
  ELSE IF AnyIn(<< "uk", "england", "britain" >>, text) THEN Point("54.0000", "-2.0000")
  ELSE IF AnyIn(<< "spain", "espa$na" >>, text) THEN Point("40.4637", "-3.7492")
  ELSE IF AnyIn(<< "japan", "$j$p" >>, text) THEN Point("36.2048", "138.2529")
  ELSE << >>

\* the coordinates and the tier they come from
Found(coordinates, tier) == [coordinates |-> coordinates, tier |-> tier]

\* lines 130-149: the first cached name, in iteration order, that contains
\* dest_clean or is contained in it, else the centre of a country
FromPartial(cache, destination, partial) ==
  IF partial # {} THEN Found(cache[MinOf(partial)].value, "partial")
  ELSE IF country_centre(Lower(destination)) # << >>
    THEN Found(country_centre(Lower(destination)), "country")
  ELSE Found(<< >>, "none")

\* the loop over the cache, lines 130-132, run before the loop over the gazetteer
FromCitiesAfterPartial(cache, destination, dest_clean, cities) ==
  IF NamedIn(cache, Lower(dest_clean), TRUE) # {}
    THEN Found(cache[MinOf(NamedIn(cache, Lower(dest_clean), TRUE))].value, "partial")
  ELSE IF cities # {} THEN Found(japan_cities[MinOf(cities)].value, "city")
  ELSE FromPartial(cache, destination, {})

\* lines 125-149: the first gazetteer city, in iteration order, named in the destination
FromCities(cache, destination, dest_clean, cities) ==
  IF cities # {} THEN Found(japan_cities[MinOf(cities)].value, "city")
  ELSE FromPartial(cache, destination, NamedIn(cache, Lower(dest_clean), TRUE))

\* lines 104-149: the lookup that follows the patterns of the location field,
\* for dest_clean = destination.strip().title(); the coordinates ([lat, lon],
\* << >> for None) and the tier they come from
lookup_coordinates(cache, destination, dest_clean) ==
  IF dest_clean \in Keys(cache) THEN Found(Lookup(cache, dest_clean), "cache")
  ELSE FromCities(cache, destination, dest_clean, NamedIn(japan_cities, Lower(destination), FALSE))

\* coordinates from the location field returned without the assignment of lines 81 and 98
AnswerUnsaved(cache, destination, embedded) ==
  IF embedded # << >>
    THEN WithColumn(Found(embedded, "url"), "cache", cache)
    ELSE WithColumn(lookup_coordinates(cache, destination, Title(Strip(destination))), "cache", cache)

\* lines 76-82 and 94-99 when embedded is [lat, lon], lines 104-149 when it is << >>
Answer(cache, destination, embedded) ==
  IF embedded # << >>
    THEN WithColumn(Found(embedded, "url"), "cache", SetItem(cache, destination, embedded))
    ELSE WithColumn(lookup_coordinates(cache, destination, Title(Strip(destination))), "cache", cache)

\* lines 59-149: what a call returns and the cache it leaves
get_coordinates_fast(cache, destination, location_field) ==
  Answer(cache, destination, url_coordinates(location_field))

\* a cache that starts from the default table whatever the file holds
load_default_table(file) == default_coordinates

\* lines 14-19: the cache a new OptimizedTripMap starts with, given the cache
\* file (<< >> when coordinates_cache.json does not exist)
load_coordinates_cache(file) == IF file # << >> THEN file[1] ELSE default_coordinates

\* lines 263-270
get_status(row, current_date) ==
  IF row.end_date < current_date THEN "past"
  ELSE IF row.start_date <= current_date /\ current_date <= row.end_date THEN "current"
  ELSE "future"

-----------------------------------------------------------------------------
(* Inputs: calendar feeds                                                  *)

\* the longest feed of several events
MaxEvents == 2

Component(name, text, dates) ==
  [name |-> name, summary |-> text[1], location |-> text[2], description |-> text[3],
   dtstart |-> dates[1], dtend |-> dates[2]]

\* (summary, location, description)
Texts ==
  { << "Flight to Tokyo", "Narita Airport", "" >>,
    << "Team Meeting at Airport Hotel", "", "" >>,
    << "Dentist appointment", "", "" >>,
    << "Apartment key pickup - Airbnb", "", "" >>,
    << "Airbnb: Cozy Loft", "", "Host will call on arrival" >>,
    << "Airbnb: Cozy Loft", "", "" >>,
    << "Hotel Gracery Shinjuku 160-0021 Tokyo", "", "" >>,
    << "Lunch with Sam", "", "" >>,
    << "Paris  Trip", "", "" >>,
    << "Paris Trip", "Paris, France", "" >>,
    << "https://www.trip.com/hotels/detail?hotelid=123", "Osaka, Japan", "" >>,
    << "https://www.trip.com/hotels/detail?hotelid=123", "", "" >>,
    << "Hotel", "", "" >>,
    << "VRBO", "none", "" >>,
    << "", "Narita Airport", "" >>,
    << "Airbnb", "Hotel", "Booked via Expedia" >> }

\* 2024-03-01 is day 60 of the epoch 2024-01-01
March1 == Days(60)

\* (dtstart, dtend)
DatePairs ==
  { << DateTimeTz(March1 + Hours(10), 0), DateTimeTz(March1 + Hours(14), 0) >>,
    << DateTime(March1 + Hours(10)), Absent >>,
    << DateTime(March1 + Hours(10)), DateTime(March1 - Days(1)) >>,
    << DateTime(March1 + Hours(10)), DateTime(March1 + Days(2) + Hours(9)) >>,
    << DateOnly(March1), DateOnly(March1 + Days(3)) >>,
    << DateOnly(March1), Valueless("other") >>,
    << Absent, DateOnly(March1) >>,
    << Valueless("nodt"), Absent >>,
    << Valueless("other"), DateOnly(March1) >>,
    << Valueless("raising"), Absent >>,
    << DateOnly(March1), Valueless("raising") >> }

Events == {Component("VEVENT", text, dates) : text \in Texts, dates \in DatePairs}

\* the components of the feeds of several events: duplicates of a cleaned title
\* on the same and on another start, an excluded event, a to-do, an event with
\* no start, an event whose end raises
SeveralEvents ==
  { Component("VEVENT", << "Paris  Trip", "", "" >>, << DateOnly(March1), DateOnly(March1 + Days(3)) >>),
    Component("VEVENT", << "Paris Trip", "Paris, France", "" >>, << DateOnly(March1), Absent >>),
    Component("VEVENT", << "Paris Trip", "Paris, France", "" >>, << DateTime(March1 + Hours(10)), DateTime(March1 - Days(1)) >>),
    Component("VEVENT", << "https://www.trip.com/hotels/detail?hotelid=123", "Osaka, Japan", "" >>, << DateOnly(March1), Absent >>),
    Component("VEVENT", << "https://www.trip.com/hotels/detail?hotelid=456", "", "" >>, << DateTimeTz(March1, 9), Absent >>),
    Component("VEVENT", << "Team Meeting at Airport Hotel", "", "" >>, << DateOnly(March1), Absent >>),
    Component("VEVENT", << "Flight to Tokyo", "Narita Airport", "" >>, << Absent, Absent >>),
    Component("VEVENT", << "Flight to Tokyo", "Narita Airport", "" >>,
              << DateOnly(March1), Valueless("raising") >>),
    Component("VTODO", << "Book flight", "", "" >>, << DateOnly(March1), Absent >>) }

\* the sequences over S of length at most n
SeqsUpTo(S, n) == UNION {[1..k -> S] : k \in 0..n}

ParsedFeed(components) == [parsed |-> TRUE, components |-> components]
\* a file icalendar.Calendar.from_ical rejects
MalformedFeed == [parsed |-> FALSE, components |-> << >>]

Feeds ==
  {ParsedFeed(<< e >>) : e \in Events}
    \cup {ParsedFeed(c) : c \in SeqsUpTo(SeveralEvents, MaxEvents)}
    \cup {MalformedFeed}

\* the last day an event of the sort feeds starts on
MaxDay == 2

\* events starting on day 1..MaxDay that end the day before, the same day or the day after
SortEvents ==
  {Component("VEVENT", text, << DateTime(Days(a)), DateTime(Days(a + b)) >>) :
     text \in { << "Flight to Tokyo", "Narita Airport", "" >>, << "Paris Trip", "", "" >> },
     a \in 1..MaxDay, b \in {-1, 0, 1}}

SortFeeds == {ParsedFeed(c) : c \in SeqsUpTo(SortEvents, MaxEvents)} \cup {MalformedFeed}

\* the readings of datetime.now(): midnight and noon of day 0..MaxDay, midnight of the next
Nows == {Hours(12 * h) : h \in 0..(2 * (MaxDay + 1))}

\* (summary, location, dtstart): events for the map, before and after March 1;
\* two carry coordinates in the location field, one carries what is no float.
\* One more event ends before March 1 and starts after it
MapEvents ==
  {Component("VEVENT", << e[1], e[2], "" >>, << DateOnly(e[3]), Absent >>) :
     e \in { << "Kyoto Trip", "https://maps.google.com/?q=35.0,135.7", March1 + Days(10) >>,
             << "Kyoto Trip", "", March1 + Days(20) >>,
             << "Paris Trip", "", March1 + Days(10) >>,
             << "Flight to Tokyo", "https://www.google.com/maps/@35.77,140.39,15z", March1 - Days(10) >>,
             << "Onsen weekend trip", "@1.2.3,4", March1 - Days(10) >>,
             << "Vacation", "", March1 >> }}
    \cup {Component("VEVENT", << "Paris Trip", "", "" >>,
                     << DateOnly(March1 + Days(5)), DateOnly(March1 - Days(5)) >>)}

MapFeeds == {ParsedFeed(c) : c \in SeqsUpTo(MapEvents, MaxEvents)} \cup {MalformedFeed}

\* the readings of datetime.now() while the map is drawn
MapNows == {March1 + Hours(12)}

\* the buttons of the map, at most one of which is clicked in a run
Clicks == {"none", "show_past", "show_current_future", "show_all", "fix_locations"}

-----------------------------------------------------------------------------
(* The session                                                             *)

VARIABLES
  pc,            \* where the run of main() stands
  file_content,  \* the uploaded feed
  i,             \* the component cal.walk() yields next
  trips,         \* the list trips of process_ics_file
  outcome,       \* the branch each component walked so far took
  df,            \* the collection process_ics_file returned
  error,         \* st.error was shown
  cached_trips,  \* st.session_state['cached_trips'], << >> while the key is absent
  now,           \* current_date, the reading of datetime.now()
  sorted_df,     \* the frame smart_sort_trips returned
  map_filter,    \* st.session_state.map_filter, "unset" while the key is absent
  filtered_df,   \* render_trip_map_fast: the rows the filter selects
  map_df,        \* create_map_fast: the copy of the frame, with its status column
  coordinates,   \* create_map_fast: the coordinates column, row by row; << >> is None
  coordinates_cache,  \* self.coordinates_cache of the OptimizedTripMap of this run
  cache_file,    \* coordinates_cache.json: << >> while it does not exist, else << dict >>
  before,        \* self.coordinates_cache when the latest get_coordinates_fast call began
  map_out,       \* what create_map_fast returned and the warnings it showed
  other          \* a second session drawing its map at the same time

\* the variables of the map
mapping ==
  << map_filter, filtered_df, map_df, coordinates, coordinates_cache, cache_file, before,
     map_out, other >>

vars == << pc, file_content, i, trips, outcome, df, error, cached_trips, now, sorted_df, mapping >>

\* what the ingestion leaves alone
display == << now, sorted_df, mapping >>

\* nothing drawn and no warning shown
NoMap == [m |-> << >>, none_found |-> FALSE, missing_coords |-> << >>]

Init ==
  /\ pc = "idle"
  /\ file_content = [parsed |-> FALSE, components |-> << >>]
  /\ i = 0
  /\ trips = << >>
  /\ outcome = << >>
  /\ df = << >>
  /\ error = FALSE
  /\ cached_trips = << >>
  /\ now = 0
  /\ sorted_df = << >>
  /\ map_filter = "unset"
  /\ filtered_df = << >>
  /\ map_df = << >>
  /\ coordinates = << >>
  /\ coordinates_cache = << >>
  /\ cache_file = << >>
  /\ before = << >>
  /\ map_out = NoMap
  /\ other = [pc |-> "idle", coordinates_cache |-> << >>]

\* main, lines 519-524: a file from F is uploaded and process_ics_file is called
Upload(F) ==
  /\ pc = "idle"
  /\ \E f \in F : file_content' = f
  /\ pc' = "parse"
  /\ UNCHANGED << i, trips, outcome, df, error, cached_trips, display >>

\* lines 60-63, 113: the feed parses
Parse ==
  /\ pc = "parse"
  /\ file_content.parsed
  /\ i' = 1
  /\ trips' = << >>
  /\ outcome' = << >>
  /\ pc' = "walk"
  /\ UNCHANGED << file_content, df, error, cached_trips, display >>

\* from_ical raises with no handler around it: the exception leaves process_ics_file
ParseFailsRaises ==
  /\ pc = "parse"
  /\ ~file_content.parsed
  /\ pc' = "crashed"
  /\ UNCHANGED << file_content, i, trips, outcome, df, error, cached_trips, display >>

\* lines 63, 206-208: from_ical raises; the error is shown and an empty frame returned
ParseFails ==
  /\ pc = "parse"
  /\ ~file_content.parsed
  /\ error' = TRUE
  /\ df' = << >>
  /\ pc' = "returned"
  /\ UNCHANGED << file_content, i, trips, outcome, cached_trips, display >>

\* a row that remembers the component it was built from
RECURSIVE Tagged(_, _)
Tagged(rows, k) ==
  IF rows = << >> THEN << >> ELSE << WithColumn(Head(rows), "event", k) >> \o Tagged(Tail(rows), k)

\* an exception of an event that is caught by the handler of line 206 only
WalkAborting ==
  /\ pc = "walk"
  /\ i <= Len(file_content.components)
  /\ IF Outcome(file_content.components[i]) = "raised"
       THEN /\ error' = TRUE
            /\ df' = << >>
            /\ pc' = "returned"
            /\ UNCHANGED << i, trips, outcome >>
       ELSE /\ trips' = trips \o Tagged(TripsOfComponent(file_content.components[i]), i)
            /\ outcome' = Append(outcome, Outcome(file_content.components[i]))
            /\ i' = i + 1
            /\ UNCHANGED << pc, df, error >>
  /\ UNCHANGED << file_content, cached_trips, display >>

\* lines 115-187: one iteration of the loop over cal.walk()
Walk ==
  /\ pc = "walk"
  /\ i <= Len(file_content.components)
  /\ trips' = trips \o Tagged(TripsOfComponent(file_content.components[i]), i)
  /\ outcome' = Append(outcome, Outcome(file_content.components[i]))
  /\ i' = i + 1
  /\ UNCHANGED << pc, file_content, df, error, cached_trips, display >>

\* the date of lines 57-59 used as a high-water mark: only the Trips that start
\* after the newest Trip of the retained collection are returned
FrameNewOnly ==
  /\ pc = "walk"
  /\ i > Len(file_content.components)
  /\ df' = IF trips # << >>
             THEN SelectSeq(drop_duplicates(AddDuration(trips)),
                            LAMBDA row : \A c \in 1..Len(cached_trips) :
                                           row.start_date > cached_trips[c].start_date)
             ELSE << >>
  /\ pc' = "returned"
  /\ UNCHANGED << file_content, i, trips, outcome, error, cached_trips, display >>

\* lines 189-204: the loop is over; the frame is built and returned
Frame ==
  /\ pc = "walk"
  /\ i > Len(file_content.components)
  /\ df' = IF trips # << >> THEN drop_duplicates(AddDuration(trips)) ELSE << >>
  /\ pc' = "returned"
  /\ UNCHANGED << file_content, i, trips, outcome, error, cached_trips, display >>

\* main, line 527
Store ==
  /\ pc = "returned"
  /\ cached_trips' = df
  /\ pc' = "shown"
  /\ UNCHANGED << file_content, i, trips, outcome, df, error, display >>

Ingest == Parse \/ ParseFails \/ Walk \/ Frame \/ Store

Next == Upload(Feeds) \/ Ingest

Spec == Init /\ [][Next]_vars

\* main, lines 529-531 and 596: a non-empty collection is sorted for the details list
SmartSort ==
  /\ pc = "shown"
  /\ df # << >>
  /\ \E n \in Nows :
       /\ now' = n
       /\ sorted_df' \in smart_sort_trips(df, n)
  /\ pc' = "sorted"
  /\ UNCHANGED << file_content, i, trips, outcome, df, error, cached_trips, mapping >>

\* lines 462-487: smart_sort_trips applied to the frame it returned, at the
\* same reading of now
SortAgain ==
  /\ pc = "sorted"
  /\ sorted_df' \in smart_sort_trips(sorted_df, now)
  /\ pc' = "resorted"
  /\ UNCHANGED << file_content, i, trips, outcome, df, error, cached_trips, now, mapping >>

NextSort == Upload(SortFeeds) \/ Ingest \/ SmartSort \/ SortAgain

\* a session that uploads a feed of the sort inputs and sorts the collection
SpecSort == Init /\ [][NextSort]_vars

\* lines 307-316: the filter after the click of this run
FilterAfter(filter, click) ==
  IF click = "show_past" THEN "past"
  ELSE IF click = "show_current_future" THEN "current_future"
  ELSE IF click = "show_all" THEN "all"
  ELSE IF filter = "unset" THEN "current_future"
  ELSE filter

\* the rows of a frame that satisfy a test, in the order of the frame
RECURSIVE Select(_, _, _)
Select(rows, past, current_date) ==
  IF rows = << >> THEN << >>
  ELSE (IF (Head(rows).end_date < current_date) = past THEN << Head(rows) >> ELSE << >>)
       \o Select(Tail(rows), past, current_date)

\* lines 321-329
MapFilter(rows, filter, current_date) ==
  IF filter = "past" THEN Select(rows, TRUE, current_date)
  ELSE IF filter = "current_future" THEN Select(rows, FALSE, current_date)
  ELSE rows

\* line 161: the status column
RECURSIVE WithStatusColumn(_, _)
WithStatusColumn(rows, current_date) ==
  IF rows = << >> THEN << >>
  ELSE << WithColumn(Head(rows), "status", get_status(Head(rows), current_date)) >>
       \o WithStatusColumn(Tail(rows), current_date)

\* main line 586, render_trip_map_fast lines 272-345: the page draws the map
\* section.  The Fix Locations button reads filtered_df at line 295, before the
\* function has assigned it: the run ends in an UnboundLocalError.  Ticking
\* the checkbox hands the frame to trip_map.render_trip_map instead
RenderMap ==
  /\ pc = "shown"
  /\ df # << >>
  /\ \E click \in Clicks, use_full_map \in BOOLEAN, n \in MapNows :
       IF click = "fix_locations"
         THEN /\ pc' = "crashed"
              /\ UNCHANGED << now, map_filter, filtered_df >>
         ELSE /\ map_filter' = FilterAfter(map_filter, click)
              /\ now' = n
              /\ filtered_df' = MapFilter(df, FilterAfter(map_filter, click), n)
              /\ pc' = IF MapFilter(df, FilterAfter(map_filter, click), n) = << >> THEN "mapped"
                       ELSE IF use_full_map THEN "full_map"
                       ELSE "create_map"
  /\ UNCHANGED << file_content, i, trips, outcome, df, error, cached_trips, sorted_df,
                  map_df, coordinates, coordinates_cache, cache_file, before, map_out, other >>

\* lines 349-350, 12-19 and 153-161: a new OptimizedTripMap loads its cache and
\* create_map_fast copies the frame and adds the status column
CreateMap ==
  /\ pc = "create_map"
  /\ coordinates_cache' = load_coordinates_cache(cache_file)
  /\ before' = coordinates_cache'
  /\ \E n \in {m \in MapNows : m >= now} :
       /\ now' = n
       /\ map_df' = WithStatusColumn(filtered_df, n)
  /\ coordinates' = << >>
  /\ pc' = "resolve"
  /\ UNCHANGED << file_content, i, trips, outcome, df, error, cached_trips, sorted_df,
                  map_filter, filtered_df, cache_file, map_out, other >>

\* lines 162-165: get_coordinates_fast is applied to the next row
Resolve ==
  /\ pc = "resolve"
  /\ Len(coordinates) < Len(map_df)
  /\ \E call \in {get_coordinates_fast(coordinates_cache,
                                        map_df[Len(coordinates) + 1].destination,
                                        map_df[Len(coordinates) + 1].location)} :
       /\ before' = coordinates_cache
       /\ coordinates_cache' = call.cache
       /\ coordinates' = Append(coordinates, call.coordinates)
  /\ UNCHANGED << pc, file_content, i, trips, outcome, df, error, cached_trips, now, sorted_df,
                  map_filter, filtered_df, map_df, cache_file, map_out, other >>

\* df[df['coordinates'].notna()] when present, df[df['coordinates'].isna()]
\* when not: the rows, each with its coordinates column
RECURSIVE WithCoordinates(_, _, _)
WithCoordinates(rows, column, present) ==
  IF rows = << >> THEN << >>
  ELSE (IF (Head(column) # << >>) = present
          THEN << WithColumn(Head(rows), "coordinates", Head(column)) >> ELSE << >>)
       \o WithCoordinates(Tail(rows), Tail(column), present)

\* a map drawn without the warning of lines 175-177
create_map_unwarned(rows, column) ==
  IF WithCoordinates(rows, column, TRUE) = << >>
    THEN [m |-> << >>, none_found |-> TRUE, missing_coords |-> << >>]
    ELSE [m |-> << WithCoordinates(rows, column, TRUE) >>,
          none_found |-> FALSE,
          missing_coords |-> << >>]

\* lines 168-256: what create_map_fast shows and returns for the frame and its
\* coordinates column.  With no coordinates at all it warns and returns None;
\* otherwise it warns of the rows without coordinates, if any, with their
\* number and the destinations of the first five, and returns a map with a
\* marker for each of the other rows
create_map_fast(rows, column) ==
  IF WithCoordinates(rows, column, TRUE) = << >>
    THEN [m |-> << >>, none_found |-> TRUE, missing_coords |-> << >>]
    ELSE [m |-> << WithCoordinates(rows, column, TRUE) >>,
          none_found |-> FALSE,
          missing_coords |-> WithCoordinates(rows, column, FALSE)]

\* lines 168-172 and 254-261: with no coordinates at all the map is given up
\* with a warning; otherwise it is drawn and the cache written to its file
FinishMap ==
  /\ pc = "resolve"
  /\ Len(coordinates) = Len(map_df)
  /\ map_out' = create_map_fast(map_df, coordinates)
  /\ cache_file' = IF \A k \in 1..Len(coordinates) : coordinates[k] = << >>
                     THEN cache_file
                     ELSE << coordinates_cache >>
  /\ pc' = "mapped"
  /\ UNCHANGED << file_content, i, trips, outcome, df, error, cached_trips, now, sorted_df,
                  map_filter, filtered_df, map_df, coordinates, coordinates_cache, before, other >>

\* the next click runs the script again, lines 519-524: the locals of the run
\* are gone; the uploader still holds the file, and st.session_state and the
\* cache file remain
Rerun ==
  /\ \/ pc \in {"mapped", "crashed", "full_map"}
     \/ pc = "shown" /\ df = << >>
  /\ pc' = "parse"
  /\ i' = 0
  /\ trips' = << >>
  /\ outcome' = << >>
  /\ df' = << >>
  /\ error' = FALSE
  /\ now' = 0
  /\ filtered_df' = << >>
  /\ map_df' = << >>
  /\ coordinates' = << >>
  /\ coordinates_cache' = << >>
  /\ before' = << >>
  /\ map_out' = NoMap
  /\ UNCHANGED << file_content, cached_trips, sorted_df, map_filter, cache_file, other >>

NextMap == Upload(MapFeeds) \/ Ingest \/ RenderMap \/ CreateMap \/ Resolve \/ FinishMap \/ Rerun

\* sessions that upload feeds of the map inputs and draw the map, run after run
SpecMap == Init /\ [][NextMap]_vars

\* the feeds of "Kyoto Trip" events
KyotoFeeds ==
  {f \in MapFeeds : \A k \in 1..Len(f.components) : f.components[k].summary = "Kyoto Trip"}

\* main, lines 513-524: the page was drawn, another file from F is uploaded and
\* process_ics_file is called with it.  st.session_state['cached_trips'] holds
\* the collection of the upload before; lines 54-59 read its newest start_date
\* for a message and for nothing else
UploadAgain(F) ==
  /\ pc = "shown"
  /\ \E f \in F : file_content' = f
  /\ pc' = "parse"
  /\ i' = 0
  /\ trips' = << >>
  /\ outcome' = << >>
  /\ df' = << >>
  /\ error' = FALSE
  /\ UNCHANGED << cached_trips, display >>

NextUploads == Upload(KyotoFeeds) \/ Ingest \/ UploadAgain(KyotoFeeds)

\* a session in which one feed after another is uploaded
SpecUploads == Init /\ [][NextUploads]_vars

\* lines 349-350 and 12-19 in a second session: its OptimizedTripMap loads the cache
OtherLoad ==
  /\ other.pc = "idle"
  /\ other' = [pc |-> "loaded", coordinates_cache |-> load_coordinates_cache(cache_file)]
  /\ UNCHANGED << pc, file_content, i, trips, outcome, df, error, cached_trips, now, sorted_df,
                  map_filter, filtered_df, map_df, coordinates, coordinates_cache, cache_file,
                  before, map_out >>

\* lines 162-165 in the second session: its frame is one "Nara Trip" with a map link
OtherResolve ==
  /\ other.pc = "loaded"
  /\ other' = [pc |-> "resolved",
               coordinates_cache |->
                 get_coordinates_fast(other.coordinates_cache, "Nara Trip",
                                      "https://maps.google.com/?ll=34.68,135.80").cache]
  /\ UNCHANGED << pc, file_content, i, trips, outcome, df, error, cached_trips, now, sorted_df,
                  map_filter, filtered_df, map_df, coordinates, coordinates_cache, cache_file,
                  before, map_out >>

\* lines 254-261 in the second session: its map is drawn and its cache written to the file
OtherSave ==
  /\ other.pc = "resolved"
  /\ cache_file' = << other.coordinates_cache >>
  /\ other' = [other EXCEPT !.pc = "saved"]
  /\ UNCHANGED << pc, file_content, i, trips, outcome, df, error, cached_trips, now, sorted_df,
                  map_filter, filtered_df, map_df, coordinates, coordinates_cache,
                  before, map_out >>

NextTwo ==
  \/ Upload(KyotoFeeds) \/ Ingest \/ RenderMap \/ CreateMap \/ Resolve \/ FinishMap \/ Rerun
  \/ OtherLoad \/ OtherResolve \/ OtherSave

\* a session that draws maps of "Kyoto Trip" events, run after run, while a
\* second session draws one map; nothing orders the steps of the two
SpecTwo == Init /\ [][NextTwo]_vars

\* (destination, location): rows for create_map_fast.  Some carry coordinates
\* in the location field, as a map link or as key-value text; one carries what
\* is no float; the others are left to the tiers of the lookup
ResolveRows ==
  {[destination |-> e[1], location |-> e[2]] :
     e \in { << "Flight to Tokyo", "https://www.google.com/maps/@35.77,140.39,15z" >>,
             << "Flight to Tokyo", "" >>,
             << "Kyoto Trip", "https://maps.google.com/?q=35.0,135.7" >>,
             << "Kyoto Trip", "lat: 34.9, lng: 135.8" >>,
             << "Kyoto Trip", "" >>,
             << "Paris", "Paris, France" >>,
             << "Paris Trip", "" >>,
             << "Paris and Kyoto", "" >>,
             << "Onsen weekend trip", "@1.2.3,4" >>,
             << "Costa Brava, Spain", "" >>,
             << "Unknown", "" >> }}

\* create_map_fast has been given a frame of at most MaxEvents of these rows, by
\* a new OptimizedTripMap that found no cache file or the file an earlier map
\* of a "Kyoto Trip" left
InitResolve ==
  /\ pc = "resolve"
  /\ file_content = [parsed |-> FALSE, components |-> << >>]
  /\ i = 0
  /\ trips = << >>
  /\ outcome = << >>
  /\ df = << >>
  /\ error = FALSE
  /\ cached_trips = << >>
  /\ now = 0
  /\ sorted_df = << >>
  /\ map_filter = "current_future"
  /\ filtered_df = << >>
  /\ map_df \in SeqsUpTo(ResolveRows, MaxEvents)
  /\ coordinates = << >>
  /\ cache_file \in {<< >>, << SetItem(default_coordinates, "Kyoto Trip", Point("35.0", "135.7")) >>}
  /\ coordinates_cache = load_coordinates_cache(cache_file)
  /\ before = coordinates_cache
  /\ map_out = NoMap
  /\ other = [pc |-> "idle", coordinates_cache |-> << >>]

\* the get_coordinates_fast calls of one create_map_fast, row after row
SpecResolve == InitResolve /\ [][Resolve]_vars

-----------------------------------------------------------------------------
(* Properties of process_ics_file                                          *)

Returned == pc \in {"returned", "shown", "sorted"}

\* the components walked so far
Walked == 1..Len(outcome)
Comp(k) == file_content.components[k]
TextOf(k) == combined_text(Comp(k))

\* the calendar events walked so far
WalkedEvents == {k \in Walked : Comp(k).name = "VEVENT"}

\* the branches in which the event passed the classifier
AcceptedOutcomes == {"no_start", "raised", "no_start_date", "trip"}

\* the rows built from component k
RowsFrom(rows, k) == {j \in 1..Len(rows) : rows[j].event = k}

NoTripFrom(k) == RowsFrom(trips, k) = {} /\ RowsFrom(df, k) = {}

\* C1: an event whose combined text contains an exclusion term yields no Trip,
\* neither as a candidate nor in the returned collection, whatever travel
\* keywords or booking-platform names the text also contains.
ExclusionPrecedence ==
  \A k \in WalkedEvents : is_excluded(TextOf(k)) => outcome[k] = "excluded" /\ NoTripFrom(k)

\* an event with an exclusion term, a booking platform, a travel keyword and a
\* start that resolves has been processed and the collection returned
ExclusionPrecedenceWitness ==
  /\ Returned
  /\ \E k \in WalkedEvents :
       /\ is_excluded(TextOf(k))
       /\ has_booking_platform(TextOf(k))
       /\ travel_score(TextOf(k)) >= 1
       /\ start_date_of(Comp(k).dtstart) # << >>

AirbnbAlwaysAccepted ==
  \A k \in WalkedEvents :
    Contains(TextOf(k), "airbnb") =>
      /\ outcome[k] \in AcceptedOutcomes
      /\ \A j \in RowsFrom(trips, k) : trips[j].has_booking_platform

\* C3 amended: every event whose text contains "airbnb" and no exclusion term
\* passes the classifier, and a Trip built from it has has_booking_platform = True.
AirbnbAcceptedUnlessExcluded ==
  \A k \in WalkedEvents :
    (Contains(TextOf(k), "airbnb") /\ ~is_excluded(TextOf(k))) =>
      /\ outcome[k] \in AcceptedOutcomes
      /\ \A j \in RowsFrom(trips, k) : trips[j].has_booking_platform
      /\ \A j \in RowsFrom(df, k) : df[j].has_booking_platform

\* an event naming airbnb, free of exclusion terms, is a Trip of the returned collection
AirbnbAcceptedWitness ==
  /\ Returned
  /\ \E k \in WalkedEvents :
       /\ Contains(TextOf(k), "airbnb")
       /\ ~is_excluded(TextOf(k))
       /\ RowsFrom(df, k) # {}

\* the key the claim names: the cleaned display title and the start
TitleAndStart(row) == << clean_trip_title(row.original_title), row.start_date >>

\* C4: no two Trips of a returned collection share (title, start_date), the
\* title being the cleaned display title; of the candidates sharing a key the
\* first in feed order is the one retained.
Deduplicated ==
  Returned =>
    /\ \A a, b \in 1..Len(df) :
         a # b => << df[a].title, df[a].start_date >> # << df[b].title, df[b].start_date >>
    /\ \A a \in 1..Len(df) : df[a].title = clean_trip_title(df[a].original_title)
    /\ \A c \in 1..Len(trips) :
         \E a \in 1..Len(df) :
           /\ TitleAndStart(df[a]) = TitleAndStart(trips[c])
           /\ df[a].event <= trips[c].event
           /\ df[a].original_title = Comp(df[a].event).summary

\* two candidates with different summaries and the same key were deduplicated
DeduplicatedWitness ==
  /\ Returned
  /\ \E c, d \in 1..Len(trips) :
       /\ c < d
       /\ trips[c].original_title # trips[d].original_title
       /\ TitleAndStart(trips[c]) = TitleAndStart(trips[d])
  /\ Len(df) < Len(trips)

\* C5: every Trip of a returned collection has an integer duration_days >= 1.
DurationAtLeastOne ==
  Returned => \A a \in 1..Len(df) : df[a].duration_days \in Int /\ df[a].duration_days >= 1

\* a collection holding a Trip that ends when it starts and one that ends before
DurationAtLeastOneWitness ==
  /\ Returned
  /\ \E a \in 1..Len(df) : df[a].end_date = df[a].start_date
  /\ \E a \in 1..Len(df) : df[a].end_date < df[a].start_date

\* C6: every Trip built satisfies start_date <= end_date.
DateOrder ==
  /\ \A a \in 1..Len(trips) : trips[a].start_date <= trips[a].end_date
  /\ \A a \in 1..Len(df) : df[a].start_date <= df[a].end_date

\* C7: every Trip has a non-empty destination.
DestinationNonEmpty ==
  /\ \A a \in 1..Len(trips) : trips[a].destination # "" /\ Len(trips[a].destination) > 0
  /\ \A a \in 1..Len(df) : df[a].destination # "" /\ Len(df[a].destination) > 0

\* a Trip whose title is a URL took its destination from the location field
DestinationNonEmptyWitness ==
  /\ Returned
  /\ \E a \in 1..Len(df) :
       /\ IsUrlTitle(df[a].original_title)
       /\ df[a].location # ""
       /\ df[a].destination = extract_destination(df[a].location, "")
       /\ df[a].destination \notin {"Hotel", "Unknown Location", "Unknown"}

\* the feed of the scenario: one event "Flight to Tokyo" at "Narita Airport",
\* 2024-03-01 from 10:00 to 14:00 UTC
ScenarioFeed ==
  ParsedFeed(<< Component("VEVENT", << "Flight to Tokyo", "Narita Airport", "" >>,
                          << DateTimeTz(March1 + Hours(10), 0),
                             DateTimeTz(March1 + Hours(14), 0) >>) >>)

\* C14 as stated: the scenario feed yields exactly one Trip, with destination
\* "Tokyo" or what the patterns capture from the title, duration_days 1 and
\* travel_score at least 1.
ScenarioTokyo ==
  (Returned /\ file_content = ScenarioFeed) =>
    /\ Len(df) = 1
    /\ df[1].destination \in {"Tokyo", FromPatterns("Flight to Tokyo")}
    /\ df[1].duration_days = 1
    /\ df[1].travel_score >= 1

\* C14, amended: the scenario feed yields exactly one Trip, whose destination
\* is the cleaned title "Flight to Tokyo", with duration_days 1 and
\* travel_score at least 1.
ScenarioTitle ==
  (Returned /\ file_content = ScenarioFeed) =>
    /\ Len(df) = 1
    /\ df[1].destination = "Flight to Tokyo"
    /\ df[1].duration_days = 1
    /\ df[1].travel_score >= 1

\* the scenario feed has been processed: its Trip starts at 10:00, ends at
\* 14:00 and counts the two keywords "flight" and "airport"
ScenarioTitleWitness ==
  /\ Returned
  /\ file_content = ScenarioFeed
  /\ Len(df) = 1
  /\ df[1].start_date = March1 + Hours(10)
  /\ df[1].end_date = March1 + Hours(14)
  /\ df[1].travel_score = 2
  /\ FromPatterns("Flight to Tokyo") = "Tokyo"

\* C15: once process_ics_file has been called on a feed that does not parse,
\* it has returned, the collection it returned is empty and the error was
\* shown by st.error, not raised to main.
MalformedFeedEmpty ==
  (~file_content.parsed /\ pc \notin {"idle", "parse"}) =>
    /\ Returned
    /\ df = << >>
    /\ error

\* main has gone on with the empty collection of a feed that did not parse
MalformedFeedEmptyWitness ==
  /\ pc = "shown"
  /\ file_content = MalformedFeed
  /\ df = << >>
  /\ cached_trips = << >>
  /\ error
  /\ outcome = << >>

\* rows without the column that remembers their component
Untagged(rows) == [k \in 1..Len(rows) |-> [f \in DOMAIN rows[k] \ {"event"} |-> rows[k][f]]]

\* the candidate Trips of a feed from which the events that raise are removed
RECURSIVE CandidatesWithoutRaising(_)
CandidatesWithoutRaising(components) ==
  IF components = << >> THEN << >>
  ELSE (IF Outcome(Head(components)) = "raised" THEN << >> ELSE TripsOfComponent(Head(components)))
       \o CandidatesWithoutRaising(Tail(components))

\* C16: when process_ics_file has returned for a feed that parses, every
\* component was walked, no event that raised left a Trip, no error was shown
\* and the candidate Trips are those of the feed without the events that raised.
FailureIsolation ==
  (Returned /\ file_content.parsed) =>
    /\ Len(outcome) = Len(file_content.components)
    /\ ~error
    /\ \A k \in Walked : outcome[k] = "raised" => NoTripFrom(k)
    /\ Untagged(trips) = CandidatesWithoutRaising(file_content.components)

\* a feed whose first event raised and whose second event became a Trip
FailureIsolationWitness ==
  /\ Returned
  /\ Len(outcome) = 2
  /\ outcome[1] = "raised"
  /\ outcome[2] = "trip"
  /\ Len(trips) = 1
  /\ Len(df) = 1
  /\ df[1].event = 2

\* the event passed the classifier
Accepted(k) == ~is_excluded(TextOf(k)) /\ is_included(TextOf(k))

\* a value with a date to resolve, and a value that is absent or has none;
\* a value whose reading raises is neither (C16 is about it)
Resolvable == {"datetime", "date"}
Unresolvable == {"absent", "nodt", "other"}

\* C21: an accepted event whose start is absent or has no date value yields no
\* Trip; an accepted event whose start resolves and whose end is absent or has
\* no date value yields one candidate Trip that ends when it starts, and that
\* Trip, where the returned collection retains it, has duration_days = 1.
DateFallbacks ==
  \A k \in WalkedEvents :
    Accepted(k) =>
      /\ Comp(k).dtstart.kind \in Unresolvable => NoTripFrom(k)
      /\ (Comp(k).dtstart.kind \in Resolvable /\ Comp(k).dtend.kind \in Unresolvable) =>
           /\ Cardinality(RowsFrom(trips, k)) = 1
           /\ \A j \in RowsFrom(trips, k) :
                /\ trips[j].start_date = Comp(k).dtstart.t
                /\ trips[j].end_date = trips[j].start_date
           /\ \A j \in RowsFrom(df, k) :
                /\ df[j].end_date = df[j].start_date
                /\ df[j].duration_days = 1

\* a returned collection of a feed with an accepted event that has no start
\* and an accepted event with a start and no end, which is a Trip of it
DateFallbacksWitness ==
  /\ Returned
  /\ \E k \in WalkedEvents : Accepted(k) /\ Comp(k).dtstart.kind = "absent"
  /\ \E k \in WalkedEvents :
       /\ Accepted(k)
       /\ Comp(k).dtstart.kind \in Resolvable
       /\ Comp(k).dtend.kind = "absent"
       /\ RowsFrom(df, k) # {}

\* C22: every Trip of a returned collection has duration_days equal to the
\* larger of 1 and the floor of its span in seconds over 86400, whether the
\* span is negative, a whole number of days or not.
DurationFormula ==
  Returned =>
    \A a \in 1..Len(df) :
      df[a].duration_days =
        IF (df[a].end_date - df[a].start_date) \div 86400 >= 1
          THEN (df[a].end_date - df[a].start_date) \div 86400
          ELSE 1

\* a returned collection with a Trip of three days and a Trip that ends a day
\* and ten hours before it starts
DurationFormulaWitness ==
  /\ Returned
  /\ \E a \in 1..Len(df) : df[a].duration_days = 3
  /\ \E a \in 1..Len(df) :
       /\ df[a].end_date < df[a].start_date
       /\ (df[a].end_date - df[a].start_date) % 86400 # 0
       /\ df[a].duration_days = 1

\* the title of event k is no URL and what the clean-up of lines 233-247
\* leaves of it is longer than 2 characters and none of the generic words
TitleKept(k) ==
  /\ ~IsUrlTitle(Strip(Comp(k).summary))
  /\ Len(CleanedTitle(Strip(Comp(k).summary))) > 2
  /\ Lower(CleanedTitle(Strip(Comp(k).summary))) \notin {"hotel", "airbnb", "booking"}

\* C25 as stated: the destination of a Trip whose cleaned title is kept is
\* that title, title-cased.
CleanedTitleTitleCased ==
  \A k \in WalkedEvents :
    TitleKept(k) =>
      \A j \in RowsFrom(trips, k) :
        trips[j].destination = Title(CleanedTitle(Strip(Comp(k).summary)))

\* C25, amended: the destination of a Trip whose cleaned title is kept is that
\* title as it stands, in the case the feed wrote it in.
CleanedTitleUnchanged ==
  \A k \in WalkedEvents :
    TitleKept(k) =>
      /\ \A j \in RowsFrom(trips, k) :
           trips[j].destination = CleanedTitle(Strip(Comp(k).summary))
      /\ \A j \in RowsFrom(df, k) :
           df[j].destination = CleanedTitle(Strip(Comp(k).summary))

\* a Trip of a returned collection whose title lost a part after a separator
\* and whose destination is what is left, which is not title-cased
CleanedTitleUnchangedWitness ==
  /\ Returned
  /\ \E k \in WalkedEvents :
       /\ TitleKept(k)
       /\ CleanedTitle(Strip(Comp(k).summary)) # Strip(Comp(k).summary)
       /\ \E j \in RowsFrom(df, k) :
            /\ df[j].destination = "Apartment key pickup"
            /\ df[j].destination # Title(df[j].destination)

PlatformsAreKeywords ==
  /\ \A p \in 1..Len(booking_platforms) :
       \E q \in 1..Len(travel_keywords) : travel_keywords[q] = booking_platforms[p]
  /\ \A k \in WalkedEvents :
       AnyIn(booking_platforms, TextOf(k)) => CountIn(travel_keywords, TextOf(k)) >= 1
  /\ \A j \in 1..Len(trips) : trips[j].travel_score >= 1
  /\ \A a \in 1..Len(df) : df[a].travel_score >= 1

\* a Trip of a returned collection that names a platform and matches no travel
\* keyword but the name of that platform
PlatformsAreKeywordsWitness ==
  /\ Returned
  /\ \E a \in 1..Len(df) :
       /\ df[a].has_booking_platform
       /\ df[a].travel_score = 1
       /\ Lower(df[a].original_title) = "vrbo"

-----------------------------------------------------------------------------
(* Properties of smart_sort_trips                                          *)

Sorted == pc = "sorted"

Statuses == {"current", "future", "past"}

\* how often a row occurs in a frame
Occurrences(rows, row) == Cardinality({k \in 1..Len(rows) : rows[k] = row})

RowsOf(rows) == {rows[k] : k \in 1..Len(rows)}

Inverted(row) == row.end_date < row.start_date

\* C8: whatever the reading of now and whatever the collection, Trips that end
\* before they start included, every Trip falls into exactly one of the classes
\* current, future and past, and the sorted frame holds each Trip of the
\* collection exactly once: nothing is lost and nothing is duplicated.
SortPartition ==
  Sorted =>
    /\ \A k \in 1..Len(df) :
         Cardinality({status \in Statuses : InClass(df[k], now, status)}) = 1
    /\ \A row \in RowsOf(df) \cup RowsOf(sorted_df) :
         Occurrences(sorted_df, row) = Occurrences(df, row)

\* a sorted collection of two Trips of different classes, one of which ends
\* before it starts, at a reading of now between its end and its start
SortPartitionWitness ==
  /\ Sorted
  /\ Len(df) = 2
  /\ trip_status(df[1], now) # trip_status(df[2], now)
  /\ \E k \in 1..2 : Inverted(df[k]) /\ df[k].end_date < now /\ now < df[k].start_date
  /\ Len(sorted_df) = 2

\* the class of a Trip as the order is stated: 1 current, 2 future, 3 past
ClassRank(row, current_date) ==
  IF row.start_date <= current_date /\ current_date <= row.end_date THEN 1
  ELSE IF row.start_date > current_date THEN 2
  ELSE 3

\* C9: in the sorted frame every current Trip comes before every future Trip and
\* every future Trip before every past Trip; current and future Trips are in
\* ascending order of start_date and past Trips in descending order.
SmartSortOrder ==
  Sorted =>
    \A a, b \in 1..Len(sorted_df) :
      a < b =>
        /\ ClassRank(sorted_df[a], now) <= ClassRank(sorted_df[b], now)
        /\ ClassRank(sorted_df[a], now) = ClassRank(sorted_df[b], now) =>
             IF ClassRank(sorted_df[a], now) = 3
               THEN sorted_df[a].start_date >= sorted_df[b].start_date
               ELSE sorted_df[a].start_date <= sorted_df[b].start_date

\* two past Trips that the feed lists oldest first come out most recent first
SmartSortOrderWitness ==
  /\ Sorted
  /\ Len(df) = 2
  /\ ClassRank(df[1], now) = 3 /\ ClassRank(df[2], now) = 3
  /\ df[1].start_date < df[2].start_date
  /\ sorted_df = << df[2], df[1] >>

-----------------------------------------------------------------------------
(* Properties of the coordinate cache                                      *)

\* a get_coordinates_fast call of this run has returned
Called == pc \in {"resolve", "mapped"} /\ coordinates # << >>

\* C10: however many get_coordinates_fast calls have been made, the latest
\* call has added at most one key to the cache and every key the cache held
\* when the call began is still in it.
CacheGrowth ==
  Called =>
    /\ Cardinality(Keys(coordinates_cache)) <= Cardinality(Keys(before)) + 1
    /\ Keys(before) \subseteq Keys(coordinates_cache)

\* the second call of a run adds a key to a cache the first call had already
\* added a key to
CacheGrowthWitness ==
  /\ Called
  /\ Len(coordinates) = 2
  /\ Cardinality(Keys(before)) = Len(default_coordinates) + 1
  /\ Cardinality(Keys(coordinates_cache)) = Cardinality(Keys(before)) + 1
  /\ Keys(default_coordinates) \subseteq Keys(coordinates_cache)

\* C11: two get_coordinates_fast calls in a row for the same destination
\* return the same coordinates, whatever location field each call carries.
RepeatableResolution ==
  Called =>
    \A k \in 1..(Len(coordinates) - 1) :
      map_df[k].destination = map_df[k + 1].destination => coordinates[k] = coordinates[k + 1]

\* the row the latest get_coordinates_fast call was made for
Asked == map_df[Len(coordinates)]

\* what the latest call returned
Given == coordinates[Len(coordinates)]

\* C12 as stated: when the latest call returned coordinates for a destination
\* that was no key of the cache, the cache holds them under that destination.
WriteThroughAll ==
  (Called /\ Given # << >> /\ Asked.destination \notin Keys(before)) =>
    /\ Asked.destination \in Keys(coordinates_cache)
    /\ Lookup(coordinates_cache, Asked.destination) = Given

\* C12, amended: when the latest call took its coordinates from the location
\* field, the cache holds them under the destination as it was passed, whether
\* or not it was a key before; a call that took them from the cache, the
\* gazetteer or a centroid, or found none, has left the cache as it was.
WriteThroughEmbedded ==
  Called =>
    IF url_coordinates(Asked.location) # << >>
      THEN /\ Given = url_coordinates(Asked.location)
           /\ Asked.destination \in Keys(coordinates_cache)
           /\ Lookup(coordinates_cache, Asked.destination) = Given
      ELSE coordinates_cache = before

\* a call has stored the coordinates of a link under a destination that was no
\* key, after an earlier call returned a cached city's coordinates for a
\* destination it left out of the cache
WriteThroughEmbeddedWitness ==
  /\ Called
  /\ Len(coordinates) = 2
  /\ coordinates[1] # << >>
  /\ url_coordinates(map_df[1].location) = << >>
  /\ map_df[1].destination \notin Keys(coordinates_cache)
  /\ url_coordinates(Asked.location) # << >>
  /\ Asked.destination \notin Keys(before)
  /\ Lookup(coordinates_cache, Asked.destination) = Given

\* both sessions are through: the second has saved, and the first has drawn a
\* map in which a "Kyoto Trip" took its coordinates from a link
BothSaved ==
  /\ other.pc = "saved"
  /\ pc = "mapped"
  /\ map_out.m # << >>
  /\ \E k \in 1..Len(map_df) : url_coordinates(map_df[k].location) # << >>

\* C13: once two sessions have each loaded the cache, resolved a new
\* destination from coordinates in a link and saved, the cache file holds both
\* new entries.
NoLostUpdate ==
  BothSaved => cache_file # << >> /\ {"Kyoto Trip", "Nara Trip"} \subseteq Keys(cache_file[1])

-----------------------------------------------------------------------------
(* Properties of the map                                                   *)

\* create_map_fast has returned in this run
MapMade == pc = "mapped" /\ map_df # << >>

\* C17: when create_map_fast has returned, every Trip it was given either has
\* a marker on the map, at the coordinates the resolver returned, or is one of
\* the Trips the warning counts; with no coordinates for any Trip it has
\* warned and returned no map.
UnplacedReported ==
  MapMade =>
    /\ Len(coordinates) = Len(map_df)
    /\ IF \A k \in 1..Len(map_df) : coordinates[k] = << >>
         THEN map_out.m = << >> /\ map_out.none_found
         ELSE /\ map_out.m # << >>
              /\ Len(map_out.m[1]) + Len(map_out.missing_coords) = Len(map_df)
              /\ \A k \in 1..Len(map_df) :
                   IF coordinates[k] # << >>
                     THEN \E j \in 1..Len(map_out.m[1]) :
                            /\ map_out.m[1][j].event = map_df[k].event
                            /\ map_out.m[1][j].coordinates = coordinates[k]
                     ELSE \E j \in 1..Len(map_out.missing_coords) :
                            map_out.missing_coords[j].event = map_df[k].event

\* a map of two Trips: one has its marker, the other is the one Trip of the warning
UnplacedReportedWitness ==
  /\ MapMade
  /\ Len(map_df) = 2
  /\ map_out.m # << >>
  /\ Len(map_out.m[1]) = 1
  /\ Len(map_out.missing_coords) = 1
  /\ map_out.missing_coords[1].destination = "Vacation"

\* C18: whatever button is clicked, no run of render_trip_map_fast on a
\* collection that is not empty ends in an unhandled exception.
NoRawException == pc # "crashed"

\* C19: a new OptimizedTripMap starts from the content of the cache file when
\* the file exists and from the default table when it does not; and when
\* create_map_fast has returned, the file holds every entry of the cache it
\* worked with, unless there is no file and the cache is still the default
\* table.  The next run, or session, therefore loads every entry this one added.
CachePersists ==
  /\ (pc = "resolve" /\ coordinates = << >>) =>
       coordinates_cache = IF cache_file = << >> THEN default_coordinates ELSE cache_file[1]
  /\ MapMade =>
       IF cache_file = << >> THEN coordinates_cache = default_coordinates
       ELSE cache_file[1] = coordinates_cache

\* a run has loaded, from the file, the entry an earlier run added for a
\* "Kyoto Trip" with a map link
CachePersistsWitness ==
  /\ pc = "resolve"
  /\ coordinates = << >>
  /\ cache_file # << >>
  /\ "Kyoto Trip" \in Keys(coordinates_cache)
  /\ Lookup(coordinates_cache, "Kyoto Trip") = Point("35.0", "135.7")
  /\ \A k \in 1..Len(map_df) : map_df[k].location = ""

\* the cache keys, by number, that match the destination of the latest call by
\* substring, in either direction
SubstringKeys == NamedIn(before, Lower(Title(Strip(Asked.destination))), TRUE)

\* the gazetteer cities, by number, that the destination of the latest call names
CitiesNamed == NamedIn(japan_cities, Lower(Asked.destination), FALSE)

\* the latest call found no coordinates in the location field and no cache key
\* equal to the trimmed, title-cased destination
PastExact ==
  /\ Called
  /\ url_coordinates(Asked.location) = << >>
  /\ Title(Strip(Asked.destination)) \notin Keys(before)

\* C20 as stated: past the link and the exact match, a destination that
\* matches a cache key by substring gets the coordinates of the first such
\* key, also when it contains the name of a gazetteer city.
SubstringBeforeGazetteer ==
  (PastExact /\ SubstringKeys # {}) => Given = before[MinOf(SubstringKeys)].value

\* C20, amended: the latest call returned what the first of these tiers gives:
\* coordinates in the location field; the cache entry of the trimmed,
\* title-cased destination; the first gazetteer city the destination names;
\* the first cache key that matches by substring in either direction; the
\* centre of Japan for an accommodation word; the centre of a country the
\* destination names; nothing.  A destination that names a gazetteer city
\* gets that city's coordinates also when it matches a cache key by substring.
GazetteerBeforeSubstring ==
  Called =>
    Given =
      IF url_coordinates(Asked.location) # << >> THEN url_coordinates(Asked.location)
      ELSE IF Title(Strip(Asked.destination)) \in Keys(before)
        THEN Lookup(before, Title(Strip(Asked.destination)))
      ELSE IF CitiesNamed # {} THEN japan_cities[MinOf(CitiesNamed)].value
      ELSE IF SubstringKeys # {} THEN before[MinOf(SubstringKeys)].value
      ELSE IF AnyIn(<< "ryokan", "onsen", "shrine", "temple" >>, Lower(Asked.destination))
        THEN Point("36.2048", "138.2529")
      ELSE IF AnyIn(<< "usa", "united states", "america" >>, Lower(Asked.destination))
        THEN Point("39.8283", "-98.5795")
      ELSE IF AnyIn(<< "uk", "england", "britain" >>, Lower(Asked.destination))
        THEN Point("54.0000", "-2.0000")
      ELSE IF AnyIn(<< "spain", "espa$na" >>, Lower(Asked.destination))
        THEN Point("40.4637", "-3.7492")
      ELSE IF AnyIn(<< "japan", "$j$p" >>, Lower(Asked.destination))
        THEN Point("36.2048", "138.2529")
      ELSE << >>

\* "Paris and Kyoto" contains the cache key "Paris" and the gazetteer city
\* "Kyoto": the call has returned the gazetteer's Kyoto
GazetteerBeforeSubstringWitness ==
  /\ PastExact
  /\ Asked.destination = "Paris and Kyoto"
  /\ SubstringKeys # {}
  /\ before[MinOf(SubstringKeys)].key = "Paris"
  /\ CitiesNamed # {}
  /\ Given = Point("35.0116", "135.7681")
  /\ Given # Lookup(before, "Paris")

\* C24: the status the map gives a Trip (_get_status, the status column of the
\* frame create_map_fast copies) is the class smart_sort_trips gives that Trip
\* at the same reading of now.
StatusAgrees ==
  (pc \in {"resolve", "mapped"}) =>
    \A k \in 1..Len(map_df) : map_df[k].status = trip_status(map_df[k], now)

=============================================================================
